---- MODULE Spec2Model ----
(***************************************************************************)
(* SGMADocumentHunter (document_hunter.py): one query of                   *)
(* get_basin_documents, from browser launch to browser.close().            *)
(*                                                                         *)
(* Texts (cell texts, link texts, hrefs, URLs) are sequences of one-       *)
(* character strings, so that lower(), substring tests, the \d{4} search,  *)
(* int() and the f-string formatting of the year are computed.             *)
(* Page contents are external: every page.content() draws a snapshot from  *)
(* a bounded set at the moment it is read.  Every awaited driver call may  *)
(* succeed or raise.  Local variables of _find_basin_page and              *)
(* _harvest_pdfs are reset when the caller resumes after their return.     *)
(***************************************************************************)
EXTENDS Integers, Sequences, FiniteSets, TLC

VARIABLES pc, identifier, pageState, navLog, browserOpen, pageAcquired,
          closeCount, cause, outcome, result,
          headers, basin_idx, year_idx, filterSubmitted, rowsRead,
          rows, i, best,
          locateReturned, target_url, latest_year, full_basin_name,
          detailNavFailed, planNavFailed, planReadFailed, snapshot, snapshotRead,
          docs, annualResolved, strategyBRan, hopUrl

vars == <<pc, identifier, pageState, navLog, browserOpen, pageAcquired,
          closeCount, cause, outcome, result,
          headers, basin_idx, year_idx, filterSubmitted, rowsRead,
          rows, i, best,
          locateReturned, target_url, latest_year, full_basin_name,
          detailNavFailed, planNavFailed, planReadFailed, snapshot, snapshotRead,
          docs, annualResolved, strategyBRan, hopUrl>>

-----------------------------------------------------------------------------
(* Bounds *)

MaxRows == 3
MaxAnchors == 2

-----------------------------------------------------------------------------
(* Text primitives *)

\* Python None; no text is equal to it.
None == <<"None">>

DOMAIN_ == <<"h","t","t","p","s",":","/","/","s","g","m","a",".","w","a","t","e","r",".","c","a",".","g","o","v">>

UpperChars == <<"A","B","C","D","E","F","G","H","I","J","K","L","M","N","O","P","Q","R","S","T","U","V","W","X","Y","Z">>
LowerChars == <<"a","b","c","d","e","f","g","h","i","j","k","l","m","n","o","p","q","r","s","t","u","v","w","x","y","z">>
Digits == <<"0","1","2","3","4","5","6","7","8","9">>

LowerChar(c) ==
  IF \E k \in 1..Len(UpperChars) : UpperChars[k] = c
  THEN LowerChars[CHOOSE k \in 1..Len(UpperChars) : UpperChars[k] = c]
  ELSE c

\* str.lower()
LowerStr(s) == [k \in 1..Len(s) |-> LowerChar(s[k])]

\* needle in hay
Contains(needle, hay) ==
  \E k \in 0..(Len(hay) - Len(needle)) : SubSeq(hay, k + 1, k + Len(needle)) = needle

\* hay.endswith(suffix)
EndsWith(hay, suffix) ==
  /\ Len(hay) >= Len(suffix)
  /\ SubSeq(hay, Len(hay) - Len(suffix) + 1, Len(hay)) = suffix

IsDigit(c) == \E k \in 1..Len(Digits) : Digits[k] = c
DigitVal(c) == (CHOOSE k \in 1..Len(Digits) : Digits[k] = c) - 1

\* a truthy str (not None, not "")
Truthy(s) == s /= None /\ s /= <<>>

RECURSIVE ParseInt(_)
\* int(digits)
ParseInt(ds) ==
  IF Len(ds) = 0 THEN 0
  ELSE 10 * ParseInt(SubSeq(ds, 1, Len(ds) - 1)) + DigitVal(ds[Len(ds)])

RECURSIVE FormatInt(_)
\* f"{n}" for n >= 0
FormatInt(n) ==
  IF n < 10 THEN <<Digits[n + 1]>>
  ELSE Append(FormatInt(n \div 10), Digits[(n % 10) + 1])

IsYearRunAt(t, p) ==
  /\ p + 3 <= Len(t)
  /\ \A k \in p..(p + 3) : IsDigit(t[k])

RECURSIVE SearchYearFrom(_, _)
SearchYearFrom(t, p) ==
  IF p + 3 > Len(t) THEN 0
  ELSE IF IsYearRunAt(t, p) THEN p
  ELSE SearchYearFrom(t, p + 1)

SearchYearLast(t) ==
  IF \E p \in 1..Len(t) : IsYearRunAt(t, p)
  THEN CHOOSE p \in 1..Len(t) : IsYearRunAt(t, p) /\ \A q \in 1..Len(t) : IsYearRunAt(t, q) => q <= p
  ELSE 0
\* re.search(r'\d{4}', t): start of the leftmost match, 0 when there is none
SearchYear(t) == SearchYearFrom(t, 1)

Max(a, b) == IF a >= b THEN a ELSE b

-----------------------------------------------------------------------------
(* Inputs: identifiers, listing-table snapshots, link snapshots *)

Identifiers == { <<"b","a","s","i","n"," ","a">>, <<"B","a","s","i","n"," ","A">> }

HeaderRows ==
  { << <<"B","a","s","i","n">>, <<"S","t","a","t","u","s">>, <<"Y","e","a","r">> >>,
    << <<"R","e","p","o","r","t"," ","Y","E","A","R">>, <<"B","A","S","I","N"," ","N","a","m","e">>, <<"B","a","s","i","n">>, <<"Y","e","a","r">> >>,
    << <<"S","t","a","t","u","s">>, <<"Y","e","a","r">> >>,
    << <<"B","a","s","i","n">>, <<"S","t","a","t","u","s">> >>,
    << >> }

\* A td: its stripped text and its first <a> (hasA), with that tag's href.
Cell(t, a, h) == [text |-> t, hasA |-> a, href |-> h]
Plain(t) == Cell(t, FALSE, None)
St == Plain(<<"S","u","b","m","i","t","t","e","d">>)

RowSet ==
  { << Cell(<<"B","A","S","I","N"," ","A"," ","(","1","-","0","0","1",")">>, TRUE, <<"/","r","2">>), St, Plain(<<"2","0","2","4"," ","(","D","r","a","f","t",")">>) >>,
    << Cell(<<"B","a","s","i","n"," ","A"," ","(","1","-","0","0","1",")">>, TRUE, <<"/","r","3">>), St, Plain(<<"2","0","2","4">>) >>,
    << Cell(<<"B","a","s","i","n"," ","B"," ","(","1","-","0","0","2",")">>, TRUE, <<"/","r","4">>), St, Plain(<<"2","0","2","5">>) >>,
    << Cell(<<"B","a","s","i","n"," ","A"," ","(","1","-","0","0","1",")">>, TRUE, <<"/","r","5">>), St, Plain(<<"n","/","a">>) >>,
    << Cell(<<"B","a","s","i","n"," ","A"," ","(","1","-","0","0","1",")">>, TRUE, None), St, Plain(<<"2","0","2","5">>) >>,
    << Cell(<<"B","a","s","i","n"," ","A"," ","(","1","-","0","0","1",")">>, TRUE, <<"/","r","8">>) >>,
    << Cell(<<"B","a","s","i","n"," ","A"," ","(","1","-","0","0","1",")">>, TRUE, <<"/","r","9">>), St, Plain(<<"W","Y"," ","2","0","2","3","-","2","0","2","4">>) >>,
    << Plain(<<"2","0","2","4">>), Cell(<<"b","a","s","i","n"," ","a"," ","(","1","-","0","0","1",")">>, TRUE, <<"/","r","1","0">>) >> }

SeqsUpTo(S, n) == UNION { [1..k -> S] : k \in 0..n }

RowSeqs == SeqsUpTo(RowSet, MaxRows)

\* An <a>: its .string (None when the tag has no single string) and href.
Anchor(t, h) == [text |-> t, href |-> h]

AnchorSet ==
  { Anchor(<<"3","-","0","0","1","_","W","Y","_","2","0","2","4",".","p","d","f">>, <<"/","d","o","c","u","m","e","n","t","/","5","5","5">>),
    Anchor(<<"3","-","0","0","1","_","W","Y","_","2","0","2","3",".","P","D","F">>, <<"/","d","o","c","u","m","e","n","t","/","7">>),
    Anchor(<<"3","-","0","0","1","_","W","Y","_","2","0","2","4",".","p","d","f">>, None),
    Anchor(<<"r","e","p","o","r","t">>, <<"/","d","o","c","u","m","e","n","t","/","9">>),
    Anchor(<<"G","S","P"," ","2","0","2","2">>, <<"/","g","s","p","/","1">>),
    Anchor(<<"G","S","P"," ","2","0","2","0">>, None) }

AnchorSeqs == SeqsUpTo(AnchorSet, MaxAnchors)

\* The anchors of the plan sub-page; only their hrefs are looked at.
PlanAnchorSet ==
  { Anchor(<<"p","l","a","n">>, <<"/","f","i","l","e","s","/","g","s","p",".","p","d","f">>),
    Anchor(None, <<"/","f","i","l","e","s","/","P","l","a","n",".","P","D","F">>),
    Anchor(<<"G","S","P"," ","2","0","2","2">>, <<"/","g","s","p","/","1">>),
    Anchor(<<"d","r","a","f","t",".","p","d","f">>, None) }

PlanPages == SeqsUpTo(PlanAnchorSet, MaxAnchors)

Headings == { None, <<"A","n","n","u","a","l"," ","R","e","p","o","r","t"," ","P","D","F","(","s",")">> }
Containers == { "div", "td", "none" }

\* A parsed page as _harvest_pdfs queries it: a text node, then the
\* anchors, all inside one enclosing div or td, or with no such ancestor.
Snapshots ==
  [container : Containers, heading : Headings, anchors : AnchorSeqs]

EmptySnapshot == [container |-> "none", heading |-> None, anchors |-> <<>>]

-----------------------------------------------------------------------------
(* Header mapping *)

HeaderTextsRaw(cells) == cells
\* [th.get_text(strip=True).lower() for th in ...]
HeaderTexts(cells) == [k \in 1..Len(cells) |-> LowerStr(cells[k])]

RECURSIVE FirstHeaderFrom(_, _, _)
FirstHeaderFrom(hs, kw, k) ==
  IF k > Len(hs) THEN -1
  ELSE IF Contains(kw, hs[k]) THEN k - 1
  ELSE FirstHeaderFrom(hs, kw, k + 1)

\* next(i for i, h in enumerate(headers) if kw in h); -1 is StopIteration
FirstHeader(hs, kw) == FirstHeaderFrom(hs, kw, 1)

-----------------------------------------------------------------------------
(* Row scan *)

NoBest == [url |-> None, year |-> 0, name |-> <<>>]

BetterStrict(year, max_year) == year > max_year
\* if year >= max_year
Better(year, max_year) == year >= max_year

\* not link_tag or not link_tag.get('href')
NoLink(cell) == ~cell.hasA \/ ~Truthy(cell.href)

\* One iteration of the loop over rows.
ScanRow(b, row, ident, bi, yi) ==
  IF Len(row) <= Max(bi, yi) THEN b
  ELSE
    LET row_basin_text == row[bi + 1].text
        row_year_text == row[yi + 1].text
    IN IF ~Contains(LowerStr(ident), LowerStr(row_basin_text)) THEN b
       ELSE
         LET p == SearchYear(row_year_text)
         IN IF p = 0 THEN b
            ELSE
              LET year == ParseInt(SubSeq(row_year_text, p, p + 3))
              IN IF NoLink(row[bi + 1]) THEN b
                 ELSE IF Better(year, b.year)
                      THEN [url |-> DOMAIN_ \o row[bi + 1].href,
                            year |-> year,
                            name |-> row_basin_text]
                      ELSE b

-----------------------------------------------------------------------------
(* Link resolution on a snapshot *)

NoDocs == [annual_report_url |-> None, gsp_url |-> None]

RECURSIVE FirstTrueFrom(_, _)
FirstTrueFrom(hits, k) ==
  IF k > Len(hits) THEN 0
  ELSE IF hits[k] THEN k
  ELSE FirstTrueFrom(hits, k + 1)

\* soup.find("a", ...) in document order: hits[k] tells whether the k-th
\* anchor passes the filter; the position of the first that does, or 0.
FirstAnchor(hits) == FirstTrueFrom(hits, 1)

\* f"WY_{year}"
TargetPattern(year) == <<"W","Y","_">> \o FormatInt(year)

TextPatternTest(a, year) ==
  /\ Truthy(a.text)
  /\ Contains(TargetPattern(year), a.text)
  /\ Contains(<<".","p","d","f">>, LowerStr(a.text))

StrategyA(snap, year) ==
  FirstAnchor([k \in 1..Len(snap.anchors) |-> TextPatternTest(snap.anchors[k], year)])

SectionPhrase == <<"A","n","n","u","a","l"," ","R","e","p","o","r","t"," ","P","D","F">>

\* soup.find(string=lambda t: t and "Annual Report PDF" in t)
HeaderNodeFound(snap) ==
  \/ Truthy(snap.heading) /\ Contains(SectionPhrase, snap.heading)
  \/ \E k \in 1..Len(snap.anchors) :
       Truthy(snap.anchors[k].text) /\ Contains(SectionPhrase, snap.anchors[k].text)

DocumentHrefTest(a) == Truthy(a.href) /\ Contains(<<"/","d","o","c","u","m","e","n","t","/">>, a.href)

StrategyB(snap) ==
  IF HeaderNodeFound(snap) /\ snap.container /= "none"
  THEN FirstAnchor([k \in 1..Len(snap.anchors) |-> DocumentHrefTest(snap.anchors[k])])
  ELSE 0

\* Step 2 of _harvest_pdfs: the docs after it, whether the fallback ran,
\* and whether pdf_link['href'] raised KeyError.
ResolveAnnualFallbackFirst(d, snap, year) ==
  LET a == StrategyA(snap, year)
      b == StrategyB(snap)
  IN IF b /= 0
     THEN [docs |-> [d EXCEPT !.annual_report_url = DOMAIN_ \o snap.anchors[b].href],
           ranB |-> TRUE, raised |-> FALSE]
     ELSE IF a /= 0 /\ snap.anchors[a].href /= None
          THEN [docs |-> [d EXCEPT !.annual_report_url = DOMAIN_ \o snap.anchors[a].href],
                ranB |-> TRUE, raised |-> FALSE]
          ELSE [docs |-> d, ranB |-> TRUE, raised |-> a /= 0]
ResolveAnnual(d, snap, year) ==
  LET a == StrategyA(snap, year)
  IN IF a /= 0
     THEN IF snap.anchors[a].href = None
          THEN [docs |-> d, ranB |-> FALSE, raised |-> TRUE]
          ELSE [docs |-> [d EXCEPT !.annual_report_url = DOMAIN_ \o snap.anchors[a].href],
                ranB |-> FALSE, raised |-> FALSE]
     ELSE LET b == StrategyB(snap)
          IN IF b /= 0
             THEN [docs |-> [d EXCEPT !.annual_report_url = DOMAIN_ \o snap.anchors[b].href],
                   ranB |-> TRUE, raised |-> FALSE]
             ELSE [docs |-> d, ranB |-> TRUE, raised |-> FALSE]

GspTextTest(a) ==
  /\ Truthy(a.text)
  /\ Contains(<<"G","S","P">>, a.text)
  /\ Contains(<<"2","0">>, a.text)

\* soup.find("a", string=lambda t: t and "GSP" in t and "20" in t)
GspLink(snap) ==
  FirstAnchor([k \in 1..Len(snap.anchors) |-> GspTextTest(snap.anchors[k])])

ShouldHopAnyLink(snap) == GspLink(snap) /= 0
\* if gsp_link_text and gsp_link_text.get('href')
ShouldHop(snap) ==
  GspLink(snap) /= 0 /\ Truthy(snap.anchors[GspLink(snap)].href)

SubPageUrl(snap) == DOMAIN_ \o snap.anchors[GspLink(snap)].href

PdfHrefTest(a) == Truthy(a.href) /\ EndsWith(LowerStr(a.href), <<".","p","d","f">>)

GspHopResetOnFailure(d, ok, plan) ==
  IF ~ok THEN NoDocs
  ELSE LET f == FirstAnchor([k \in 1..Len(plan) |-> PdfHrefTest(plan[k])])
       IN IF f = 0 THEN d ELSE [d EXCEPT !.gsp_url = DOMAIN_ \o plan[f].href]
GspHopKeepSubPage(d, ok, plan) ==
  IF ~ok THEN [d EXCEPT !.gsp_url = SubPageUrl(snapshot)]
  ELSE LET f == FirstAnchor([k \in 1..Len(plan) |-> PdfHrefTest(plan[k])])
       IN IF f = 0 THEN d ELSE [d EXCEPT !.gsp_url = DOMAIN_ \o plan[f].href]
\* The try block of step 3: ok is FALSE when goto, content or parsing
\* raised (the except clause only logs).
GspHop(d, ok, plan) ==
  IF ~ok THEN d
  ELSE LET f == FirstAnchor([k \in 1..Len(plan) |-> PdfHrefTest(plan[k])])
       IN IF f = 0 THEN d ELSE [d EXCEPT !.gsp_url = DOMAIN_ \o plan[f].href]

-----------------------------------------------------------------------------
(* Results *)

Pending == [kind |-> "none", basin_name |-> None, latest_year |-> 0,
            annual_report_url |-> None, gsp_url |-> None]

\* return {}
EmptyRecord == [kind |-> "empty", basin_name |-> None, latest_year |-> 0,
                annual_report_url |-> None, gsp_url |-> None]

\* documents.update({...})
Merge(d, name, year) ==
  [kind |-> "documents", basin_name |-> name, latest_year |-> year,
   annual_report_url |-> d.annual_report_url, gsp_url |-> d.gsp_url]

NotFoundOnlyEmpty(url) == url = <<>>
\* if not target_url
NotFound(url) == ~Truthy(url)

-----------------------------------------------------------------------------
(* State *)

PageStates == {"Blank", "OnListing", "OnDetail", "OnPlanSubpage"}

Init ==
  /\ pc = "launch"
  /\ identifier \in Identifiers
  /\ pageState = "Blank"
  /\ navLog = <<>>
  /\ browserOpen = FALSE
  /\ pageAcquired = FALSE
  /\ closeCount = 0
  /\ cause = "none"
  /\ outcome = "pending"
  /\ result = Pending
  /\ headers = <<>>
  /\ basin_idx = -1
  /\ year_idx = -1
  /\ filterSubmitted = FALSE
  /\ rowsRead = FALSE
  /\ rows = <<>>
  /\ i = 0
  /\ best = NoBest
  /\ locateReturned = FALSE
  /\ target_url = None
  /\ latest_year = 0
  /\ full_basin_name = <<>>
  /\ detailNavFailed = FALSE
  /\ planNavFailed = FALSE
  /\ planReadFailed = FALSE
  /\ snapshot = EmptySnapshot
  /\ snapshotRead = FALSE
  /\ docs = NoDocs
  /\ annualResolved = FALSE
  /\ strategyBRan = FALSE
  /\ hopUrl = None

lifecycle == <<browserOpen, pageAcquired, closeCount>>
answer == <<outcome, result>>
locateLocals == <<headers, basin_idx, year_idx, rows, i, best>>
locateFlags == <<filterSubmitted, rowsRead>>
locateResult == <<locateReturned, target_url, latest_year, full_basin_name>>
harvestLocals == <<snapshot, snapshotRead, docs, annualResolved, strategyBRan, hopUrl>>
navFlags == <<detailNavFailed, planNavFailed, planReadFailed>>

\* The frames of _find_basin_page and _harvest_pdfs are gone.
DropLocateLocals ==
  /\ headers' = <<>>
  /\ basin_idx' = -1
  /\ year_idx' = -1
  /\ rows' = <<>>
  /\ i' = 0
  /\ best' = NoBest

DropHarvestLocals ==
  /\ snapshot' = EmptySnapshot
  /\ snapshotRead' = FALSE
  /\ docs' = NoDocs
  /\ annualResolved' = FALSE
  /\ strategyBRan' = FALSE
  /\ hopUrl' = None

\* An exception leaves the try block of get_basin_documents: nothing
\* catches it, the finally clause runs next.
RaiseInTry(c) ==
  /\ pc' = "finally"
  /\ cause' = c
  /\ outcome' = "raised"
  /\ DropLocateLocals
  /\ DropHarvestLocals
  /\ UNCHANGED <<identifier, lifecycle, result, locateFlags, locateResult>>

\* page.goto: a successful navigation moves the page, a failed one does not.
PageAfterGoto(state, target, ok) == IF ok THEN target ELSE state

-----------------------------------------------------------------------------
(* get_basin_documents, before the try block *)

Launch ==
  /\ pc = "launch"
  /\ \/ /\ pc' = "new_page"
        /\ browserOpen' = TRUE
        /\ UNCHANGED <<cause, outcome>>
     \/ /\ pc' = "done"
        /\ cause' = "launch"
        /\ outcome' = "raised"
        /\ UNCHANGED browserOpen
  /\ UNCHANGED <<identifier, pageState, navLog, pageAcquired, closeCount, result,
                 locateLocals, locateFlags, locateResult, navFlags, harvestLocals>>

NewPage ==
  /\ pc = "new_page"
  /\ \/ /\ pc' = "goto_listing"
        /\ pageAcquired' = TRUE
        /\ UNCHANGED <<cause, outcome>>
     \/ /\ pc' = "done"
        /\ cause' = "new_page"
        /\ outcome' = "raised"
        /\ UNCHANGED pageAcquired
  /\ UNCHANGED <<identifier, pageState, navLog, browserOpen, closeCount, result,
                 locateLocals, locateFlags, locateResult, navFlags, harvestLocals>>

-----------------------------------------------------------------------------
(* _find_basin_page *)

GotoListing ==
  /\ pc = "goto_listing"
  /\ navLog' = Append(navLog, "listing")
  /\ \E ok \in BOOLEAN :
       /\ pageState' = PageAfterGoto(pageState, "OnListing", ok)
       /\ IF ok
          THEN /\ pc' = "wait_table"
               /\ UNCHANGED <<identifier, lifecycle, cause, answer, locateLocals,
                              locateFlags, locateResult, harvestLocals>>
          ELSE RaiseInTry("goto_listing")
  /\ UNCHANGED navFlags

WaitForTable ==
  /\ pc = "wait_table"
  /\ \/ /\ pc' = "map_headers"
        /\ UNCHANGED <<identifier, lifecycle, cause, answer, locateLocals,
                       locateFlags, locateResult, harvestLocals>>
     \/ RaiseInTry("table_timeout")
  /\ UNCHANGED <<pageState, navLog, navFlags>>

\* Lines 79-90.  The header row is read from the snapshot taken now.
MapHeaders ==
  /\ pc = "map_headers"
  /\ \E h \in HeaderRows :
       LET hs == HeaderTexts(h)
           b == FirstHeader(hs, <<"b","a","s","i","n">>)
           y == FirstHeader(hs, <<"y","e","a","r">>)
       IN /\ headers' = h
          /\ IF b = -1 \/ y = -1
             THEN /\ pc' = "locate_ret"
                  /\ cause' = "header_map"
                  /\ UNCHANGED <<basin_idx, year_idx>>
             ELSE /\ pc' = "apply_filter"
                  /\ basin_idx' = b
                  /\ year_idx' = y
                  /\ UNCHANGED cause
  /\ UNCHANGED <<identifier, pageState, navLog, lifecycle, answer, rows, i, best,
                 locateFlags, locateResult, navFlags, harvestLocals>>

\* Lines 94-98.  search_box.wait_for may time out.
ApplyFilter ==
  /\ pc = "apply_filter"
  /\ \/ /\ pc' = "read_rows"
        /\ filterSubmitted' = TRUE
        /\ UNCHANGED <<identifier, lifecycle, cause, answer, locateLocals,
                       rowsRead, locateResult, harvestLocals>>
     \/ RaiseInTry("search_box")
  /\ UNCHANGED <<pageState, navLog, navFlags>>

\* Lines 101-109.
ReadRows ==
  /\ pc = "read_rows"
  /\ \E rs \in RowSeqs : rows' = rs
  /\ rowsRead' = TRUE
  /\ i' = 1
  /\ best' = NoBest
  /\ pc' = "scan"
  /\ UNCHANGED <<identifier, pageState, navLog, lifecycle, cause, answer, headers,
                 basin_idx, year_idx, filterSubmitted, locateResult, navFlags,
                 harvestLocals>>

\* Lines 111-148, one row.
ScanStep ==
  /\ pc = "scan"
  /\ i <= Len(rows)
  /\ best' = ScanRow(best, rows[i], identifier, basin_idx, year_idx)
  /\ i' = i + 1
  /\ UNCHANGED <<pc, identifier, pageState, navLog, lifecycle, cause, answer, headers,
                 basin_idx, year_idx, rows, locateFlags, locateResult, navFlags,
                 harvestLocals>>

\* Line 150.
ScanDone ==
  /\ pc = "scan"
  /\ i > Len(rows)
  /\ pc' = "locate_ret"
  /\ UNCHANGED <<identifier, pageState, navLog, lifecycle, cause, answer,
                 locateLocals, locateFlags, locateResult, navFlags, harvestLocals>>

-----------------------------------------------------------------------------
(* get_basin_documents, lines 47-64 *)

\* Line 47: the tuple returned by _find_basin_page is unpacked.
LocateReturn ==
  /\ pc = "locate_ret"
  /\ locateReturned' = TRUE
  /\ target_url' = best.url
  /\ latest_year' = best.year
  /\ full_basin_name' = best.name
  /\ pc' = "check_target"
  /\ UNCHANGED <<identifier, pageState, navLog, lifecycle, cause, answer,
                 locateLocals, locateFlags, navFlags, harvestLocals>>

\* Lines 49-51.
ReturnEmpty ==
  /\ pc = "check_target"
  /\ NotFound(target_url)
  /\ result' = EmptyRecord
  /\ outcome' = "returned"
  /\ pc' = "finally"
  /\ DropLocateLocals
  /\ UNCHANGED <<identifier, pageState, navLog, lifecycle, cause, locateFlags,
                 locateResult, navFlags, harvestLocals>>

\* Line 56: _harvest_pdfs is entered.
EnterHarvest ==
  /\ pc = "check_target"
  /\ ~NotFound(target_url)
  /\ pc' = "goto_detail"
  /\ DropLocateLocals
  /\ UNCHANGED <<identifier, pageState, navLog, lifecycle, cause, answer, locateFlags,
                 locateResult, navFlags, harvestLocals>>

-----------------------------------------------------------------------------
(* _harvest_pdfs *)

\* Line 161; the except clause of line 163 swallows a failure.
GotoDetail ==
  /\ pc = "goto_detail"
  /\ navLog' = Append(navLog, "detail")
  /\ \E ok \in BOOLEAN :
       /\ pageState' = PageAfterGoto(pageState, "OnDetail", ok)
       /\ detailNavFailed' = ~ok
       /\ pc' = IF ok THEN "wait_anchor" ELSE "read_detail"
  /\ UNCHANGED <<identifier, lifecycle, cause, answer, locateLocals, locateFlags,
                 locateResult, planNavFailed, planReadFailed, harvestLocals>>

\* Line 162; a timeout is swallowed as well.
WaitForAnchor ==
  /\ pc = "wait_anchor"
  /\ pc' = "read_detail"
  /\ UNCHANGED <<identifier, pageState, navLog, lifecycle, cause, answer,
                 locateLocals, locateFlags, locateResult, navFlags, harvestLocals>>

\* Lines 166-172: the content of whatever page is current.
ReadDetail ==
  /\ pc = "read_detail"
  /\ \E s \in Snapshots : snapshot' = s
  /\ snapshotRead' = TRUE
  /\ docs' = NoDocs
  /\ pc' = "annual"
  /\ UNCHANGED <<identifier, pageState, navLog, lifecycle, cause, answer,
                 locateLocals, locateFlags, locateResult, navFlags,
                 annualResolved, strategyBRan, hopUrl>>

\* Lines 177-204.
AnnualStep ==
  /\ pc = "annual"
  /\ LET r == ResolveAnnual(docs, snapshot, latest_year)
     IN IF r.raised
        THEN /\ RaiseInTry("key_error")
             /\ UNCHANGED <<pageState, navLog, navFlags>>
        ELSE /\ docs' = r.docs
             /\ strategyBRan' = r.ranB
             /\ annualResolved' = TRUE
             /\ pc' = "gsp"
             /\ UNCHANGED <<identifier, pageState, navLog, lifecycle, cause, answer,
                            locateLocals, locateFlags, locateResult, navFlags,
                            snapshot, snapshotRead, hopUrl>>

\* Lines 209-211, no hop.
GspSkip ==
  /\ pc = "gsp"
  /\ ~ShouldHop(snapshot)
  /\ pc' = "harvest_ret"
  /\ UNCHANGED <<identifier, pageState, navLog, lifecycle, cause, answer,
                 locateLocals, locateFlags, locateResult, navFlags, harvestLocals>>

\* Lines 213-218.
GotoPlan ==
  /\ pc = "gsp"
  /\ ShouldHop(snapshot)
  /\ hopUrl' = SubPageUrl(snapshot)
  /\ navLog' = Append(navLog, "plan")
  /\ \E ok \in BOOLEAN :
       /\ pageState' = PageAfterGoto(pageState, "OnPlanSubpage", ok)
       /\ planNavFailed' = ~ok
       /\ IF ok
          THEN /\ pc' = "read_plan"
               /\ UNCHANGED docs
          ELSE /\ pc' = "harvest_ret"
               /\ docs' = GspHop(docs, FALSE, <<>>)
  /\ UNCHANGED <<identifier, lifecycle, cause, answer, locateLocals, locateFlags,
                 locateResult, detailNavFailed, planReadFailed, snapshot, snapshotRead,
                 annualResolved, strategyBRan>>

\* Lines 219-233.
ReadPlan ==
  /\ pc = "read_plan"
  /\ \E plan \in PlanPages, ok \in BOOLEAN :
       /\ docs' = GspHop(docs, ok, plan)
       /\ planReadFailed' = ~ok
  /\ pc' = "harvest_ret"
  /\ UNCHANGED <<identifier, pageState, navLog, lifecycle, cause, answer,
                 locateLocals, locateFlags, locateResult, detailNavFailed, planNavFailed,
                 snapshot, snapshotRead, annualResolved, strategyBRan, hopUrl>>

\* Lines 56-64.
MergeReturn ==
  /\ pc = "harvest_ret"
  /\ result' = Merge(docs, full_basin_name, latest_year)
  /\ outcome' = "returned"
  /\ pc' = "finally"
  /\ DropHarvestLocals
  /\ UNCHANGED <<identifier, pageState, navLog, lifecycle, cause, locateLocals,
                 locateFlags, locateResult, navFlags>>

FinallySkipOnRaise ==
  /\ pc = "finally"
  /\ pc' = "done"
  /\ closeCount' = IF outcome = "raised" THEN closeCount ELSE closeCount + 1
  /\ browserOpen' = (outcome = "raised")
  /\ UNCHANGED <<identifier, pageState, navLog, pageAcquired, cause, answer,
                 locateLocals, locateFlags, locateResult, navFlags, harvestLocals>>
\* Lines 66-67: finally: await browser.close()
Finally ==
  /\ pc = "finally"
  /\ pc' = "done"
  /\ closeCount' = closeCount + 1
  /\ browserOpen' = FALSE
  /\ UNCHANGED <<identifier, pageState, navLog, pageAcquired, cause, answer,
                 locateLocals, locateFlags, locateResult, navFlags, harvestLocals>>

Next ==
  \/ Launch
  \/ NewPage
  \/ GotoListing
  \/ WaitForTable
  \/ MapHeaders
  \/ ApplyFilter
  \/ ReadRows
  \/ ScanStep
  \/ ScanDone
  \/ LocateReturn
  \/ ReturnEmpty
  \/ EnterHarvest
  \/ GotoDetail
  \/ WaitForAnchor
  \/ ReadDetail
  \/ AnnualStep
  \/ GspSkip
  \/ GotoPlan
  \/ ReadPlan
  \/ MergeReturn
  \/ Finally

Spec == Init /\ [][Next]_vars

-----------------------------------------------------------------------------
(* Properties *)

Range(f) == { f[k] : k \in DOMAIN f }

\* A valid candidate row, stated over the row itself.
HasYearRun(t) == \E p \in 1..Len(t) : IsYearRunAt(t, p)
FirstRun(t) == CHOOSE p \in 1..Len(t) : IsYearRunAt(t, p) /\ \A q \in 1..(p - 1) : ~IsYearRunAt(t, q)
RunValue(t, p) ==
  1000 * DigitVal(t[p]) + 100 * DigitVal(t[p + 1]) + 10 * DigitVal(t[p + 2]) + DigitVal(t[p + 3])
BasinCell(k) == rows[k][basin_idx + 1]
YearCell(k) == rows[k][year_idx + 1]
ValidAt(k) ==
  /\ Len(rows[k]) >= Max(basin_idx, year_idx) + 1
  /\ Contains(LowerStr(identifier), LowerStr(BasinCell(k).text))
  /\ HasYearRun(YearCell(k).text)
  /\ BasinCell(k).hasA
  /\ Truthy(BasinCell(k).href)
YearAt(k) == RunValue(YearCell(k).text, FirstRun(YearCell(k).text))
RecordAt(k) ==
  [url |-> DOMAIN_ \o BasinCell(k).href, year |-> YearAt(k), name |-> BasinCell(k).text]
ValidRows == { k \in 1..Len(rows) : ValidAt(k) }

ScanFinished == pc = "locate_ret" /\ rowsRead

\* Matches on the snapshot, stated over its anchors.
AMatches == { k \in 1..Len(snapshot.anchors) : TextPatternTest(snapshot.anchors[k], latest_year) }
BMatches ==
  { k \in 1..Len(snapshot.anchors) :
      /\ HeaderNodeFound(snapshot)
      /\ snapshot.container \in {"div", "td"}
      /\ DocumentHrefTest(snapshot.anchors[k]) }
Least(S) == CHOOSE k \in S : \A j \in S : k <= j
LinkAt(k) == DOMAIN_ \o snapshot.anchors[k].href

\* C1: when header mapping fails or the initial wait for the listing table
\* times out, the query ends by returning the empty record, and no
\* exception reaches the caller.
C1_FatalReturnsEmpty ==
  (pc = "done" /\ cause \in {"header_map", "table_timeout"})
    => (outcome = "returned" /\ result = EmptyRecord)

\* C2: once the page handle is acquired, browser.close() is called exactly
\* once before the query ends, whether it returns documents, returns the
\* empty record, or a failure is raised in the locate or harvest step.
C2_ReleasedExactlyOnce ==
  /\ closeCount <= 1
  /\ (pc = "done" /\ pageAcquired) => (closeCount = 1 /\ ~browserOpen)
  /\ (closeCount = 1) => pc = "done"

C2_Witness ==
  /\ pc = "done"
  /\ cause = "key_error"
  /\ outcome = "raised"
  /\ closeCount = 1

\* C3: after the scan of the rows, the tracked best row is the valid
\* candidate with the greatest parsed year, the later-scanned one among
\* those of that year, and its URL is the portal domain followed by the
\* row's href.
C3_MaxYearLastWins ==
  (ScanFinished /\ ValidRows /= {}) =>
    LET m == CHOOSE y \in { YearAt(k) : k \in ValidRows } :
               \A k \in ValidRows : YearAt(k) <= y
        top == { k \in ValidRows : YearAt(k) = m }
        last == CHOOSE k \in top : \A j \in top : j <= k
    IN /\ best.year = m
       /\ best.url = DOMAIN_ \o BasinCell(last).href
       /\ best = RecordAt(last)

C3_Witness ==
  /\ ScanFinished
  /\ \E j, k \in ValidRows :
       /\ j < k
       /\ YearAt(j) = YearAt(k)
       /\ \A n \in ValidRows : YearAt(n) <= YearAt(k)
       /\ BasinCell(j).href /= BasinCell(k).href
       /\ \A n \in ValidRows : n <= k
       /\ best.url = DOMAIN_ \o BasinCell(k).href

C5_GspLeavesAnnual ==
  /\ []((pc = "harvest_ret" /\ (planNavFailed \/ planReadFailed)) => docs.gsp_url = None)
  /\ [][(pc \in {"gsp", "read_plan"}) => (docs'.annual_report_url = docs.annual_report_url)]_vars

C5_Witness ==
  /\ pc = "harvest_ret"
  /\ planNavFailed
  /\ docs.annual_report_url /= None
  /\ docs.gsp_url = None

\* C6: when no row of the filtered table is a valid candidate, the locator
\* returns (null, 0, "") and the query returns the empty record without a
\* navigation to a detail page.
C6_NotFound ==
  /\ (ScanFinished /\ ValidRows = {}) => best = NoBest
  /\ (locateReturned /\ rowsRead /\ target_url = None) =>
       /\ latest_year = 0
       /\ full_basin_name = <<>>
       /\ pc \in {"check_target", "finally", "done"}
       /\ Range(navLog) = {"listing"}
       /\ pc = "done" => (outcome = "returned" /\ result = EmptyRecord)

C6_Witness ==
  /\ pc = "done"
  /\ locateReturned
  /\ rowsRead
  /\ target_url = None
  /\ result = EmptyRecord
  /\ navLog = <<"listing">>

\* C7: the header mapper gives each role the index of the first header cell
\* whose lower-cased text contains its keyword; when a keyword is in no
\* cell the mapping fails, and then no filter is submitted and no row read.
IsFirstWith(idx, kw) ==
  /\ idx \in 0..(Len(headers) - 1)
  /\ Contains(kw, LowerStr(headers[idx + 1]))
  /\ \A j \in 0..(idx - 1) : ~Contains(kw, LowerStr(headers[j + 1]))
KeywordPresent(kw) == \E k \in 1..Len(headers) : Contains(kw, LowerStr(headers[k]))
C7_HeaderMapper ==
  /\ (pc \in {"apply_filter", "read_rows", "scan"} \/ ScanFinished) =>
       (IsFirstWith(basin_idx, <<"b","a","s","i","n">>) /\ IsFirstWith(year_idx, <<"y","e","a","r">>))
  /\ (pc = "locate_ret" /\ ~rowsRead) =>
       /\ cause = "header_map"
       /\ ~KeywordPresent(<<"b","a","s","i","n">>) \/ ~KeywordPresent(<<"y","e","a","r">>)
  /\ cause = "header_map" => (~filterSubmitted /\ ~rowsRead)

C7_Witness ==
  /\ pc = "apply_filter"
  /\ headers = << <<"R","e","p","o","r","t"," ","Y","E","A","R">>, <<"B","A","S","I","N"," ","N","a","m","e">>, <<"B","a","s","i","n">>, <<"Y","e","a","r">> >>
  /\ basin_idx = 1
  /\ year_idx = 0

\* C8: the tracked best row is always a valid candidate row already
\* scanned (enough cells, identifier in the basin text ignoring case, a
\* 4-digit run in the year text whose first occurrence is the year, a
\* hyperlink in the basin cell); scanning any other row moves on to the
\* next row and leaves the tracked best row as it was.
C8_OnlyValidRows ==
  /\ []((pc \in {"scan", "locate_ret"} /\ rowsRead /\ best /= NoBest) =>
          \E k \in ValidRows : k < i /\ best = RecordAt(k))
  /\ [][(pc = "scan" /\ i <= Len(rows) /\ ~ValidAt(i)) =>
          (best' = best /\ pc' = "scan" /\ i' = i + 1)]_vars

C8_Witness ==
  /\ ScanFinished
  /\ Len(rows) = 3
  /\ ValidAt(1)
  /\ YearCell(1).text = <<"W","Y"," ","2","0","2","3","-","2","0","2","4">>
  /\ ~ValidAt(2)
  /\ ~ValidAt(3)
  /\ best.year = 2023

GspMatches == { k \in 1..Len(snapshot.anchors) : GspTextTest(snapshot.anchors[k]) }
C10_NavigationOrder ==
  /\ navLog \in { <<>>, <<"listing">>, <<"listing", "detail">>,
                  <<"listing", "detail", "plan">> }
  /\ (pc \in {"read_plan", "harvest_ret"} /\ "plan" \in Range(navLog)) =>
       /\ annualResolved
       /\ GspMatches /= {}
       /\ Truthy(snapshot.anchors[Least(GspMatches)].href)
       /\ hopUrl = LinkAt(Least(GspMatches))
  /\ pc \in {"goto_detail", "wait_anchor", "read_detail", "annual", "gsp"} =>
       "plan" \notin Range(navLog)

C10_Witness ==
  /\ pc = "harvest_ret"
  /\ navLog = <<"listing", "detail", "plan">>
  /\ detailNavFailed
  /\ planNavFailed

====
